---------------------------- MODULE Spec2Model ----------------------------
(***************************************************************************)
(* Model of monitor_prices.py: one monitoring run (main) of the silver     *)
(* DCA-ladder monitor.  A run fetches two live prices, scrapes the two     *)
(* position snapshots ('moo' and 'cn') out of index.html, derives the      *)
(* next-buy and margin-call ("boom") prices of each snapshot, appends      *)
(* alerts and mails them.                                                  *)
(*                                                                         *)
(* Numbers.  Python computes on IEEE doubles; the model computes on exact  *)
(* rationals <<n, d>> with d > 0 in lowest terms.  A division whose        *)
(* divisor is zero raises ZeroDivisionError, as Python's float division    *)
(* does.  For the inputs enumerated below the double computation and the   *)
(* exact one agree on which divisors are zero (lots = 4, marginRate = 0.75 *)
(* gives den = 0.0 in doubles too).                                        *)
(***************************************************************************)
EXTENDS Integers, Sequences, FiniteSets, TLC

VARIABLES
    pc,            \* position of main
    exc,           \* exception that ended the run ("none" while there is none)
    gold,          \* main's local gold    (None while unassigned / on failure)
    silver,        \* main's local silver
    config,        \* main's local config
    alerts,        \* main's local alerts list
    ratio,         \* main's local ratio
    moo_target,    \* main's locals holding the thresholds
    moo_boom,
    cn_price_est,
    cn_target,
    cn_boom,
    calls,         \* the functions main has called so far, in order
    evaluated,     \* the alert rules whose condition main has evaluated
    mail           \* the SMTP delivery attempts made, in order

vars == <<pc, exc, gold, silver, config, alerts, ratio, moo_target, moo_boom,
          cn_price_est, cn_target, cn_boom, calls, evaluated, mail>>

None == <<>>

-----------------------------------------------------------------------------
(* Exact rational arithmetic standing for Python's float arithmetic.       *)

Abs(x) == IF x < 0 THEN 0 - x ELSE x

RECURSIVE GCD(_, _)
GCD(a, b) == IF b = 0 THEN a ELSE GCD(b, a % b)

\* The rational n/d (d # 0) in lowest terms with a positive denominator.
Rat(n, d) ==
    LET g == GCD(Abs(n), Abs(d))
        s == IF d < 0 THEN 0 - 1 ELSE 1
    IN  <<(s * n) \div g, (s * d) \div g>>

Num(n) == <<n, 1>>

IsZero(x) == x[1] = 0

RAdd(x, y) == Rat(x[1] * y[2] + y[1] * x[2], x[2] * y[2])

RSub(x, y) == Rat(x[1] * y[2] - y[1] * x[2], x[2] * y[2])

\* Cross-reduced before multiplying, so that the products stay small.
RMul(x, y) ==
    LET g1 == GCD(Abs(x[1]), y[2])
        g2 == GCD(Abs(y[1]), x[2])
    IN  Rat((x[1] \div g1) * (y[1] \div g2), (x[2] \div g2) * (y[2] \div g1))

\* x / y for y # 0 (the callers decide what a zero divisor does).
RDiv(x, y) == RMul(x, Rat(y[2], y[1]))

\* Sign of a/b - c/d for b, d > 0, by comparing the continued fractions:
\* no product is formed, so no intermediate value exceeds the operands.
RECURSIVE Cmp(_, _, _, _)
Cmp(a, b, c, d) ==
    LET q1 == a \div b
        q2 == c \div d
        r1 == a % b
        r2 == c % d
    IN  IF q1 < q2 THEN 0 - 1
        ELSE IF q1 > q2 THEN 1
        ELSE IF r1 = 0 /\ r2 = 0 THEN 0
        ELSE IF r1 = 0 THEN 0 - 1
        ELSE IF r2 = 0 THEN 1
        ELSE Cmp(d, r2, b, r1)

RLt(x, y) == Cmp(x[1], x[2], y[1], y[2]) < 0

RLeq(x, y) == Cmp(x[1], x[2], y[1], y[2]) <= 0

-----------------------------------------------------------------------------
(* Inputs of a run: what the price feed answers and what index.html holds. *)

\* Largest lot count a snapshot of index.html records.
MaxLots == 4

\* XAUUSDT quotes (0 stands for a quote of "0").
GoldPrices == {0, 1200, 1320, 1500}

\* XAGUSDT quotes.
SilverPrices == {0, 21, 30}

\* marginRate values of index.html, in percent.
MarginRatePcts == {0, 10, 75}

\* currentEquity values of the two blocks.
MooEquities == {10, 50, 200}
CnEquities == {1000, 12000, 40000}

\* The keys parse_config_from_html extracts from a block.
Keys == {"startPrice", "startEquity", "startLots", "currentPrice",
         "currentEquity", "currentLots", "marginRate", "contractSize"}

\* A block of the CONFIG literal: the numbers written after its keys.  A
\* block may lack its contractSize key.
Blocks(price, equities) ==
    LET full == { [startPrice |-> Num(price), startEquity |-> Num(e),
                   startLots |-> Num(0), currentPrice |-> Num(price),
                   currentEquity |-> Num(e), currentLots |-> Num(l),
                   marginRate |-> Rat(m, 100), contractSize |-> Num(1)] :
                  e \in equities, l \in 0..MaxLots, m \in MarginRatePcts }
        part == { [startPrice |-> b.startPrice, startEquity |-> b.startEquity,
                   startLots |-> b.startLots, currentPrice |-> b.currentPrice,
                   currentEquity |-> b.currentEquity,
                   currentLots |-> b.currentLots,
                   marginRate |-> b.marginRate] : b \in full }
    IN  full \cup part

MooBlocks == Blocks(30, MooEquities)
CnBlocks == Blocks(7000, CnEquities)


\* What get_live_prices can return.
Quotes == {<<Num(g), Num(s)>> : g \in GoldPrices, s \in SilverPrices}

\* The CONFIG literals index.html can hold.
HtmlConfigs == {[cn |-> c, moo |-> m] : c \in CnBlocks, m \in MooBlocks}

-----------------------------------------------------------------------------
(* The functions of monitor_prices.py.                                     *)

\* get_live_prices: the two quotes, or (None, None) when a request, the
\* JSON decoding or float() raises.
get_live_prices(answer) ==
    IF answer = None THEN <<None, None>> ELSE answer

\* extract_val: the number after the key, 0 when the block has no such key.
extract_val(block, key) ==
    IF key \in DOMAIN block THEN block[key] ELSE Num(0)

\* parse_config_from_html: None when the file cannot be read or holds no
\* CONFIG literal, else the eight values of each of the two blocks.
parse_config_from_html(html) ==
    IF html = None THEN None
    ELSE [l \in {"cn", "moo"} |-> [k \in Keys |-> extract_val(html[l], k)]]

\* safety_rate of calculate_next_buy, in percent.
safety_rate == 20

\* What a call ends in: a returned value, or a raised exception.
Return(v) == [exc |-> "none", value |-> v]
Raise(e) == [exc |-> e, value |-> None]

\* calculate_next_buy with the boom price computed from the live price
\* instead of the snapshot's price (the mistake the comment at its boom-price
\* formula warns of).
calculate_next_buy_live(cfg_type, cfg, live_price) ==
    LET eq == cfg["currentEquity"]
        lots == cfg["currentLots"]
        sz == cfg["contractSize"]
        margin_rate == cfg["marginRate"]
        sr == RDiv(Num(safety_rate), Num(100))
        K == RAdd(sr, RMul(RSub(Num(1), sr), margin_rate))
        num == RSub(eq, RMul(RMul(lots, sz), cfg["currentPrice"]))
        den == RSub(RMul(RMul(RAdd(lots, Num(1)), sz), K), RMul(lots, sz))
        bnum == RSub(RMul(RMul(sz, lots), live_price), eq)
        bden == RMul(RMul(sz, lots), RSub(Num(1), margin_rate))
    IN  IF IsZero(den) THEN Raise("ZeroDivisionError")
        ELSE IF IsZero(bden) THEN Raise("ZeroDivisionError")
        ELSE Return(<<RDiv(num, den), RDiv(bnum, bden)>>)

\* calculate_next_buy: (target_price, boom_price) of a snapshot; each of its
\* two divisions raises ZeroDivisionError on a zero divisor.
calculate_next_buy(cfg_type, cfg, live_price) ==
    LET p == cfg["currentPrice"]
        eq == cfg["currentEquity"]
        lots == cfg["currentLots"]
        sz == cfg["contractSize"]
        margin_rate == cfg["marginRate"]
        sr == RDiv(Num(safety_rate), Num(100))
        K == RAdd(sr, RMul(RSub(Num(1), sr), margin_rate))
        next_lots == RAdd(lots, Num(1))
        num == RSub(eq, RMul(RMul(lots, sz), p))
        den == RSub(RMul(RMul(next_lots, sz), K), RMul(lots, sz))
        bnum == RSub(RMul(RMul(sz, lots), p), eq)
        bden == RMul(RMul(sz, lots), RSub(Num(1), margin_rate))
    IN  IF IsZero(den) THEN Raise("ZeroDivisionError")
        ELSE IF IsZero(bden) THEN Raise("ZeroDivisionError")
        ELSE Return(<<RDiv(num, den), RDiv(bnum, bden)>>)

\* send_email without its try/except: a failed SMTP session raises.
send_email_uncaught(subject, body, credentials, smtp) ==
    IF ~credentials THEN [attempts |-> <<>>, exc |-> "none"]
    ELSE [attempts |-> <<[body |-> body, outcome |-> smtp]>>,
          exc |-> IF smtp = "failed" THEN "SMTPException" ELSE "none"]

\* send_email: no attempt without credentials; else one SMTP session whose
\* failure is caught and printed.  Gives the attempts made and how the call
\* ends.
send_email(subject, body, credentials, smtp) ==
    IF ~credentials THEN [attempts |-> <<>>, exc |-> "none"]
    ELSE [attempts |-> <<[body |-> body, outcome |-> smtp]>>, exc |-> "none"]

-----------------------------------------------------------------------------
(* main, step by step.                                                     *)

\* A test for a zero quote only ("x == 0"), which lets None through.
Falsy_zero_only(x) == x # None /\ IsZero(x)

\* Python's "not x" for a float or None.
Falsy(x) == x = None \/ IsZero(x)

\* The ratio below which main raises the ratio alert.
RatioFloor == 44

\* The ratio rule with <= in place of <.
RatioBelow_inclusive(r) == RLeq(r, Num(RatioFloor))

\* main's ratio rule: ratio < 44.
RatioBelow(r) == RLt(r, Num(RatioFloor))

\* main's buy rule: price <= target * 1.01.
NearTarget(price, target) == RLeq(price, RMul(target, Rat(101, 100)))

\* main's margin-call rule: price <= boom * 1.05.
NearBoom(price, boom) == RLeq(price, RMul(boom, Rat(105, 100)))

\* cn_price_est = silver * 7.3 * 1000 / 31.1035
CnPriceEst(s) ==
    RDiv(RMul(RMul(s, Rat(73, 10)), Num(1000)), Rat(311035, 10000))

\* The 'moo' alerts with the two checks in the other order.
MooAlerts_swapped(price, target, boom) ==
    (IF NearBoom(price, boom) THEN <<"MooMoo MARGIN CALL WARNING">> ELSE <<>>)
    \o (IF NearTarget(price, target) THEN <<"MooMoo Buy Alert">> ELSE <<>>)

\* The alerts main appends for the 'moo' ladder, in the order it appends them.
MooAlerts(price, target, boom) ==
    (IF NearTarget(price, target) THEN <<"MooMoo Buy Alert">> ELSE <<>>)
    \o (IF NearBoom(price, boom) THEN <<"MooMoo MARGIN CALL WARNING">>
        ELSE <<>>)

\* The alerts main appends for the 'cn' ladder.
CnAlerts(price, target, boom) ==
    IF NearBoom(price, boom) THEN <<"CN Futures Risk Warning">> ELSE <<>>

Init ==
    /\ pc = "start"
    /\ exc = "none"
    /\ gold = None
    /\ silver = None
    /\ config = None
    /\ alerts = <<>>
    /\ ratio = None
    /\ moo_target = None
    /\ moo_boom = None
    /\ cn_price_est = None
    /\ cn_target = None
    /\ cn_boom = None
    /\ calls = <<>>
    /\ evaluated = {}
    /\ mail = <<>>

\* gold, silver = get_live_prices()
Main_GetLivePrices ==
    /\ pc = "start"
    /\ \E answer \in Quotes \cup {None} :
          LET r == get_live_prices(answer)
          IN  /\ gold' = r[1]
              /\ silver' = r[2]
    /\ calls' = Append(calls, "get_live_prices")
    /\ pc' = "check_prices"
    /\ UNCHANGED <<exc, config, alerts, ratio, moo_target, moo_boom,
                   cn_price_est, cn_target, cn_boom, evaluated, mail>>

\* if not gold or not silver: return
Main_CheckPrices ==
    /\ pc = "check_prices"
    /\ pc' = IF Falsy(gold) \/ Falsy(silver) THEN "done" ELSE "parse_config"
    /\ UNCHANGED <<exc, gold, silver, config, alerts, ratio, moo_target,
                   moo_boom, cn_price_est, cn_target, cn_boom, calls,
                   evaluated, mail>>

\* config = parse_config_from_html()
Main_ParseConfig ==
    /\ pc = "parse_config"
    /\ \E html \in HtmlConfigs \cup {None} :
          config' = parse_config_from_html(html)
    /\ calls' = Append(calls, "parse_config_from_html")
    /\ pc' = "check_config"
    /\ UNCHANGED <<exc, gold, silver, alerts, ratio, moo_target, moo_boom,
                   cn_price_est, cn_target, cn_boom, evaluated, mail>>

\* if not config: return;  alerts = []
Main_CheckConfig ==
    /\ pc = "check_config"
    /\ pc' = IF config = None THEN "done" ELSE "ratio"
    /\ alerts' = <<>>
    /\ UNCHANGED <<exc, gold, silver, config, ratio, moo_target, moo_boom,
                   cn_price_est, cn_target, cn_boom, calls, evaluated, mail>>

\* 1. Ratio Check
Main_RatioCheck ==
    /\ pc = "ratio"
    /\ ratio' = RDiv(gold, silver)
    /\ alerts' = IF RatioBelow(ratio')
                 THEN Append(alerts, "Gold/Silver Ratio Alert")
                 ELSE alerts
    /\ evaluated' = evaluated \cup {"ratio"}
    /\ pc' = "moo"
    /\ UNCHANGED <<exc, gold, silver, config, moo_target, moo_boom,
                   cn_price_est, cn_target, cn_boom, calls, mail>>

\* 2. MooMoo Check
Main_MooCheck ==
    /\ pc = "moo"
    /\ calls' = Append(calls, "calculate_next_buy")
    /\ LET r == calculate_next_buy("moo", config["moo"], silver)
       IN  IF r.exc # "none"
           THEN /\ exc' = r.exc
                /\ pc' = "done"
                /\ UNCHANGED <<moo_target, moo_boom, alerts, evaluated>>
           ELSE /\ moo_target' = r.value[1]
                /\ moo_boom' = r.value[2]
                /\ alerts' = alerts \o MooAlerts(silver, r.value[1], r.value[2])
                /\ evaluated' = evaluated \cup {"moo_buy", "moo_boom"}
                /\ pc' = "cn"
                /\ UNCHANGED exc
    /\ UNCHANGED <<gold, silver, config, ratio, cn_price_est, cn_target,
                   cn_boom, mail>>

\* 3. CN Check
Main_CnCheck ==
    /\ pc = "cn"
    /\ cn_price_est' = CnPriceEst(silver)
    /\ calls' = Append(calls, "calculate_next_buy")
    /\ LET r == calculate_next_buy("cn", config["cn"], cn_price_est')
       IN  IF r.exc # "none"
           THEN /\ exc' = r.exc
                /\ pc' = "done"
                /\ UNCHANGED <<cn_target, cn_boom, alerts, evaluated>>
           ELSE /\ cn_target' = r.value[1]
                /\ cn_boom' = r.value[2]
                /\ alerts' = alerts
                             \o CnAlerts(cn_price_est', r.value[1], r.value[2])
                /\ evaluated' = evaluated \cup {"cn_boom"}
                /\ pc' = "dispatch"
                /\ UNCHANGED exc
    /\ UNCHANGED <<gold, silver, config, ratio, moo_target, moo_boom, mail>>

\* if alerts: send_email(subject, body)
Main_SendAlerts ==
    /\ pc = "dispatch"
    /\ alerts # <<>>
    /\ \E credentials \in BOOLEAN, smtp \in {"sent", "failed"} :
          LET r == send_email(<<ratio, silver>>, <<alerts, gold, silver>>,
                              credentials, smtp)
          IN  /\ mail' = mail \o r.attempts
              /\ exc' = r.exc
    /\ calls' = Append(calls, "send_email")
    /\ pc' = "done"
    /\ UNCHANGED <<gold, silver, config, alerts, ratio, moo_target, moo_boom,
                   cn_price_est, cn_target, cn_boom, evaluated>>

\* else: print("No alerts. ...")
Main_NoAlerts ==
    /\ pc = "dispatch"
    /\ alerts = <<>>
    /\ pc' = "done"
    /\ UNCHANGED <<exc, gold, silver, config, alerts, ratio, moo_target,
                   moo_boom, cn_price_est, cn_target, cn_boom, calls,
                   evaluated, mail>>

Next ==
    \/ Main_GetLivePrices
    \/ Main_CheckPrices
    \/ Main_ParseConfig
    \/ Main_CheckConfig
    \/ Main_RatioCheck
    \/ Main_MooCheck
    \/ Main_CnCheck
    \/ Main_SendAlerts
    \/ Main_NoAlerts

Spec == Init /\ [][Next]_vars

-----------------------------------------------------------------------------
(* Vocabulary of the properties.                                           *)

Range(f) == {f[i] : i \in DOMAIN f}

Ladders == {"moo", "cn"}

\* Prices and snapshots were loaded: main got past both of its early returns.
Loaded == "ratio" \in evaluated

\* The run has ended, by a return or by an uncaught exception.
Ended == pc = "done"

\* The number of calculate_next_buy calls made so far.
Calculations == Cardinality({i \in DOMAIN calls : calls[i] = "calculate_next_buy"})

\* calculate_next_buy was called for the ladder ('moo' first, then 'cn').
Called(l) == IF l = "moo" THEN Calculations >= 1 ELSE Calculations >= 2

\* The live price a ladder's rules compare: silver for 'moo', the CNY/kg
\* estimate for 'cn'.
LivePrice(l) == IF l = "moo" THEN silver ELSE CnPriceEst(silver)

BuyAlert(l) == IF l = "moo" THEN "MooMoo Buy Alert" ELSE "CN Futures Buy Alert"

MarginAlert(l) ==
    IF l = "moo" THEN "MooMoo MARGIN CALL WARNING" ELSE "CN Futures Risk Warning"

\* The thresholds as the formulas define them, on a snapshot cfg.
LotsHeld(cfg) == cfg["currentLots"][1]

BuyDenominator(cfg) ==
    LET K == RAdd(Rat(1, 5), RMul(Rat(4, 5), cfg["marginRate"]))
    IN  RSub(RMul(RMul(Num(LotsHeld(cfg) + 1), cfg["contractSize"]), K),
             RMul(Num(LotsHeld(cfg)), cfg["contractSize"]))

NextBuyDefined(cfg) == ~IsZero(BuyDenominator(cfg))

NextBuyPrice(cfg) ==
    RDiv(RSub(cfg["currentEquity"],
              RMul(RMul(Num(LotsHeld(cfg)), cfg["contractSize"]),
                   cfg["currentPrice"])),
         BuyDenominator(cfg))

MarginCallDenominator(cfg) ==
    RMul(RMul(cfg["contractSize"], Num(LotsHeld(cfg))),
         RSub(Num(1), cfg["marginRate"]))

MarginCallDefined(cfg) == LotsHeld(cfg) > 0 /\ ~IsZero(MarginCallDenominator(cfg))

MarginCallPrice(cfg) ==
    RDiv(RSub(RMul(RMul(cfg["contractSize"], Num(LotsHeld(cfg))),
                   cfg["currentPrice"]),
              cfg["currentEquity"]),
         MarginCallDenominator(cfg))

Positive(x) == x[1] > 0

\* The buy rule and the margin-call rule of a ladder, on the run's inputs.
BuyRuleTrue(l) ==
    /\ NextBuyDefined(config[l])
    /\ Positive(NextBuyPrice(config[l]))
    /\ RLeq(LivePrice(l), RMul(NextBuyPrice(config[l]), Rat(101, 100)))

MarginRuleTrue(l) ==
    /\ MarginCallDefined(config[l])
    /\ Positive(MarginCallPrice(config[l]))
    /\ RLeq(LivePrice(l), RMul(MarginCallPrice(config[l]), Rat(105, 100)))

\* gold / silver < 44, for silver > 0.
RatioRuleTrue == gold[1] * silver[2] < 44 * silver[1] * gold[2]

\* A ladder whose snapshot makes one of its thresholds undefined.
Degenerate(l) == LotsHeld(config[l]) = 0 \/ ~NextBuyDefined(config[l])

\* The alert was handed to the notifier: it is in the list send_email got.
Handed(a) == a \in Range(alerts) /\ "send_email" \in Range(calls)

-----------------------------------------------------------------------------
(* The properties.                                                         *)

\* C1: in a run where prices and config were loaded and a ladder's snapshot
\* is degenerate (lotsHeld = 0, or a zero buy-target denominator), the run
\* still completes without an exception, and the ratio alert and every
\* alert of the other ladder that its own rules make true are handed to the
\* notifier.
C1_DegenerateLadderIsSkipped ==
    (Ended /\ Loaded /\ \E l \in Ladders : Degenerate(l)) =>
        /\ exc = "none"
        /\ RatioRuleTrue => Handed("Gold/Silver Ratio Alert")
        /\ \A l \in Ladders :
              (~Degenerate(l) /\ MarginRuleTrue(l)) => Handed(MarginAlert(l))

\* C2: computing the margin-call price of a snapshot with lotsHeld = 0 (whose
\* next-buy price is computable) ends in the named failure NoPosition: no
\* division by zero, no numeric value.
C2_ZeroLotsEndsInNoPosition ==
    \A l \in Ladders :
        (Called(l) /\ LotsHeld(config[l]) = 0 /\ NextBuyDefined(config[l]))
        => exc = "NoPosition"

\* C3: computing the next-buy price of a snapshot (contractSize > 0) whose
\* buy-target denominator is zero ends in the named failure
\* DegenerateLadder; the division is not carried out.
C3_ZeroDenominatorEndsInDegenerateLadder ==
    \A l \in Ladders :
        (Called(l) /\ Positive(config[l]["contractSize"])
            /\ ~NextBuyDefined(config[l]))
        => exc = "DegenerateLadder"

\* C4: when fetching the live prices failed, the run stops there: no
\* threshold is computed, no rule evaluated, no alert appended, no mail sent.
C4_FetchFailureAbortsRun ==
    (pc # "start" /\ (gold = None \/ silver = None)) =>
        /\ pc \in {"check_prices", "done"}
        /\ calls = <<"get_live_prices">>
        /\ evaluated = {}
        /\ alerts = <<>>
        /\ mail = <<>>

C4_Witness ==
    pc = "done" /\ gold = None /\ silver = None /\ calls = <<"get_live_prices">>

\* C5: at the end of a run with prices and config loaded, for each ladder
\* the margin-call alert is in the alert list exactly when lotsHeld > 0,
\* marginCallPrice > 0 and livePrice <= marginCallPrice * 1.05.
C5_MarginAlertIffRule ==
    (Ended /\ Loaded) =>
        \A l \in Ladders :
            MarginAlert(l) \in Range(alerts) <=> MarginRuleTrue(l)

\* C6: at the end of a run that completed without an exception, for each
\* ladder the buy alert is in the alert list exactly when the next-buy price
\* is defined, positive and livePrice <= nextBuyPrice * 1.01.
C6_BuyAlertIffRule ==
    (Ended /\ Loaded /\ exc = "none") =>
        \A l \in Ladders :
            BuyAlert(l) \in Range(alerts) <=> BuyRuleTrue(l)

\* What main got from its calculate_next_buy call for the ladder.
Obtained(l) ==
    IF l = "moo"
    THEN IF moo_boom = None THEN Raise(exc) ELSE Return(<<moo_target, moo_boom>>)
    ELSE IF cn_boom = None THEN Raise(exc) ELSE Return(<<cn_target, cn_boom>>)

\* Live prices to call calculate_next_buy with: every quote and estimate.
ProbePrices ==
    {Num(s) : s \in SilverPrices} \cup {CnPriceEst(Num(s)) : s \in SilverPrices}

\* C7: what calculate_next_buy gave main for a snapshot is what it gives for
\* the same snapshot and any other live price: both thresholds (or the
\* exception) are the same.
C7_ThresholdsIgnoreLivePrice ==
    \A l \in Ladders :
        Called(l) =>
            \A lp \in ProbePrices :
                calculate_next_buy(l, config[l], lp) = Obtained(l)

C7_Witness ==
    /\ Ended /\ exc = "none"
    /\ moo_boom # None /\ cn_boom # None
    /\ Positive(moo_boom) /\ Positive(cn_boom)
    /\ silver = Num(21)

AllRules == {"ratio", "moo_buy", "moo_boom", "cn_boom"}

SendEmailCalls == Cardinality({i \in DOMAIN calls : calls[i] = "send_email"})

\* C8: send_email is called at most once and makes at most one delivery
\* attempt, only after every alert rule was evaluated; after it, also when
\* the delivery failed, the run has returned without an exception.
C8_SingleDeliveryAttempt ==
    /\ SendEmailCalls <= 1
    /\ Len(mail) <= 1
    /\ SendEmailCalls = 1 => (evaluated = AllRules /\ Ended /\ exc = "none")
    /\ mail # <<>> => SendEmailCalls = 1

C8_Witness ==
    /\ Ended /\ exc = "none"
    /\ Len(mail) = 1 /\ mail[1].outcome = "failed"

\* C9: once the ratio rule was evaluated, the ratio alert is in the alert
\* list exactly when gold / silver < 44 (strictly), whatever the snapshots
\* are and however the run goes on.
C9_RatioAlertIffBelowFloor ==
    Loaded => ("Gold/Silver Ratio Alert" \in Range(alerts) <=> RatioRuleTrue)

\* A ratio of exactly 44 was evaluated and raised no alert.
C9_Witness ==
    /\ Ended /\ Loaded
    /\ gold = Num(1320) /\ silver = Num(30)
    /\ "Gold/Silver Ratio Alert" \notin Range(alerts)

AlertOrder ==
    <<"Gold/Silver Ratio Alert", "MooMoo Buy Alert",
      "MooMoo MARGIN CALL WARNING", "CN Futures Risk Warning">>

Rank(a) == CHOOSE i \in DOMAIN AlertOrder : AlertOrder[i] = a

\* The rule behind an alert, on the run's inputs.
RuleTrue(a) ==
    CASE a = "Gold/Silver Ratio Alert" -> RatioRuleTrue
      [] a = "MooMoo Buy Alert" -> BuyRuleTrue("moo")
      [] a = "MooMoo MARGIN CALL WARNING" -> MarginRuleTrue("moo")
      [] a = "CN Futures Risk Warning" -> MarginRuleTrue("cn")

\* C10: the alert list is always in the order ratio, 'moo' buy, 'moo'
\* margin call, 'cn'; and once every rule was evaluated it is a function of
\* the run's inputs (live prices and snapshots) alone.
C10_AlertOrderFixed ==
    /\ \A i, j \in DOMAIN alerts :
          i < j => Rank(alerts[i]) < Rank(alerts[j])
    /\ evaluated = AllRules => alerts = SelectSeq(AlertOrder, RuleTrue)

C10_Witness == Ended /\ alerts = AlertOrder

=============================================================================
